---- MODULE Spec2Model ----
(***************************************************************************)
(* A model of qde.py: solving y' = f on a grid by turning each block of    *)
(* unknown grid values into a QUBO problem.                                *)
(*                                                                         *)
(* Numbers.  The program computes in floating point; the model computes    *)
(* in exact rational arithmetic.  A rational is a pair <<n, d>> in lowest  *)
(* terms with d > 0.  A division by zero (numpy yields inf or nan and      *)
(* only warns) is the absorbing value NonFinite == <<0, 0>>.               *)
(*                                                                         *)
(* Arrays.  A Python array a[0..n-1] is the sequence a[1..n]; Python index *)
(* k is index k + 1 here.  The loop variables i and next_i keep their      *)
(* Python values.                                                          *)
(***************************************************************************)
EXTENDS Integers, Sequences, FiniteSets, TLC

----------------------------------------------------------------------------
(* Exact arithmetic *)

Abs(n) == IF n < 0 THEN -n ELSE n

Min(a, b) == IF a <= b THEN a ELSE b

Max(a, b) == IF a >= b THEN a ELSE b

RECURSIVE GCD(_, _)
GCD(a, b) == IF b = 0 THEN a ELSE GCD(b, a % b)

NonFinite == <<0, 0>>

IsFinite(a) == a[2] # 0

Frac(n, d) ==
    IF d = 0 THEN NonFinite
    ELSE LET g == GCD(Abs(n), Abs(d))
             s == IF d < 0 THEN -1 ELSE 1
         IN  <<(s * n) \div g, (s * d) \div g>>

R(n) == <<n, 1>>

RAdd(a, b) ==
    IF a[2] = 0 \/ b[2] = 0 THEN NonFinite
    ELSE Frac(a[1] * b[2] + b[1] * a[2], a[2] * b[2])

RNeg(a) == <<-a[1], a[2]>>

RSub(a, b) == RAdd(a, RNeg(b))

RMul(a, b) ==
    IF a[2] = 0 \/ b[2] = 0 THEN NonFinite
    ELSE Frac(a[1] * b[1], a[2] * b[2])

RDiv(a, b) ==
    IF a[2] = 0 \/ b[2] = 0 \/ b[1] = 0 THEN NonFinite
    ELSE Frac(a[1] * b[2], a[2] * b[1])

RLess(a, b) == a[1] * b[2] < b[1] * a[2]

RLeq(a, b) == a[1] * b[2] <= b[1] * a[2]

RAbs(a) == <<Abs(a[1]), a[2]>>

RECURSIVE IntPow(_, _)
IntPow(b, e) == IF e = 0 THEN 1 ELSE b * IntPow(b, e - 1)

(* a ** e for a rational a and an integer e >= 0 *)
RPow(a, e) == IF a[2] = 0 THEN NonFinite ELSE <<IntPow(a[1], e), IntPow(a[2], e)>>

(* 2 ** e for any integer e *)
Pow2(e) == IF e >= 0 THEN <<IntPow(2, e), 1>> ELSE <<1, IntPow(2, -e)>>

RECURSIVE RSum(_)
RSum(s) == IF s = <<>> THEN R(0) ELSE RAdd(Head(s), RSum(Tail(s)))

(* The Python slice s[a:b] for 0 <= a, with b clamped to the length *)
Slice(s, a, b) == [k \in 1..Max(0, Min(b, Len(s)) - a) |-> s[a + k]]

----------------------------------------------------------------------------
(* The restricted first-order path *)

build_quadratic_minimization_matrix(npoints, dx) ==
    LET m == npoints - 1
    IN  [r \in 1..m |-> [c \in 1..m |->
            RDiv(R(IF r = c THEN (IF r = m THEN 1 ELSE 2)
                   ELSE IF Abs(r - c) = 1 THEN -1 ELSE 0),
                 RPow(dx, 2))]]

(* build_quadratic_minimization_vector without the boundary term y1 / dx *)
build_quadratic_minimization_vector_no_boundary(f, dx, y1) ==
    LET n  == Len(f)
        d0 == [k \in 1..(n - 1) |-> RNeg(f[k])]
        d1 == [k \in 1..(n - 1) |-> IF k <= n - 2 THEN RAdd(d0[k], f[k + 1]) ELSE d0[k]]
    IN  [k \in 1..(n - 1) |-> RDiv(RMul(d1[k], R(2)), dx)]

build_quadratic_minimization_vector(f, dx, y1) ==
    LET n  == Len(f)
        d0 == [k \in 1..(n - 1) |-> RNeg(f[k])]
        d1 == [k \in 1..(n - 1) |-> IF k <= n - 2 THEN RAdd(d0[k], f[k + 1]) ELSE d0[k]]
        d2 == [k \in 1..(n - 1) |-> IF k = 1 THEN RSub(d1[k], RDiv(y1, dx)) ELSE d1[k]]
    IN  [k \in 1..(n - 1) |-> RDiv(RMul(d2[k], R(2)), dx)]

j_range(qbits_integer, qbits_decimal) ==
    [k \in 1..Max(0, qbits_integer + qbits_decimal) |-> k - qbits_integer]

build_discretization_matrix(qbits_integer, qbits_decimal) ==
    LET js == j_range(qbits_integer, qbits_decimal)
    IN  [a \in 1..Len(js) |-> [b \in 1..Len(js) |-> Pow2(-(js[a] + js[b]))]]

(* build_discretization_vector over range(-qbits_integer, qbits_decimal + 1) *)
build_discretization_vector_wide(qbits_integer, qbits_decimal) ==
    LET js == j_range(qbits_integer + 1, qbits_decimal)
    IN  [a \in 1..Len(js) |-> Pow2(-js[a])]

build_discretization_vector(qbits_integer, qbits_decimal) ==
    LET js == j_range(qbits_integer, qbits_decimal)
    IN  [a \in 1..Len(js) |-> Pow2(-js[a])]

(* The result of build_qubo_matrix: the matrix, or the IndexError that      *)
(* H[-1, -1] raises for an empty H (fewer than two points) and that         *)
(* d_discret_elem[0] raises for an empty discretization vector.             *)
build_qubo_matrix(f, dx, y1, H_discret_elem, d_discret_elem, signed) ==
    LET H_cont == build_quadratic_minimization_matrix(Len(f), dx)
        d_vec  == build_quadratic_minimization_vector(f, dx, y1)
        nb     == Len(d_discret_elem)
        m      == Len(d_vec)
    IN  IF Len(f) < 2 \/ (signed /\ nb = 0) THEN [exc |-> "IndexError", Q |-> <<>>]
        ELSE LET d_cont == IF signed
                           THEN [k \in 1..m |->
                                   IF k = 1
                                   THEN RSub(d_vec[k],
                                             RDiv(RMul(R(2), d_discret_elem[1]), RPow(dx, 2)))
                                   ELSE d_vec[k]]
                           ELSE d_vec
                 blk(u) == ((u - 1) \div nb) + 1
                 bit(u) == ((u - 1) % nb) + 1
             IN  [exc |-> "none",
                  Q |-> [u \in 1..(m * nb) |-> [v \in 1..(m * nb) |->
                          LET h == RMul(H_discret_elem[bit(u)][bit(v)], H_cont[blk(u)][blk(v)])
                          IN  IF u = v
                              THEN RAdd(h, RMul(d_discret_elem[bit(u)], d_cont[blk(u)]))
                              ELSE h]]]

----------------------------------------------------------------------------
(* Decoding and the sampler's view of a QUBO *)

(* Rows of samples_bin_structured * d_discret_elem summed over axis 2, then  *)
(* recentred when signed: the continuous values one sample stands for.       *)
decode(bits, d_discret_elem, qbits_integer, signed) ==
    LET nb == Len(d_discret_elem)
        m  == Len(bits) \div nb
    IN  [k \in 1..m |->
            LET raw == RSum([b \in 1..nb |-> RMul(R(bits[(k - 1) * nb + b]), d_discret_elem[b])])
            IN  IF signed THEN RSub(raw, Pow2(qbits_integer - 1)) ELSE raw]

(* error_shift with the recentring cross term scaled by 2^(qbits_integer-1) *)
error_shift_halved(next_f, dx, y1, qbits_integer, signed) ==
    LET base == RAdd(RDiv(RAdd(RPow(y1, 2),
                               RMul(RMul(RMul(R(2), y1), next_f[1]), dx)),
                          RPow(dx, 2)),
                     RSum([k \in 1..(Len(next_f) - 1) |-> RPow(next_f[k], 2)]))
    IN  IF signed
        THEN RAdd(base,
                  RDiv(RAdd(Pow2(2 * (qbits_integer - 1)),
                            RMul(Pow2(qbits_integer - 1), RAdd(y1, RMul(next_f[1], dx)))),
                       RPow(dx, 2)))
        ELSE base

error_shift(next_f, dx, y1, qbits_integer, signed) ==
    LET base == RAdd(RDiv(RAdd(RPow(y1, 2),
                               RMul(RMul(RMul(R(2), y1), next_f[1]), dx)),
                          RPow(dx, 2)),
                     RSum([k \in 1..(Len(next_f) - 1) |-> RPow(next_f[k], 2)]))
    IN  IF signed
        THEN RAdd(base,
                  RDiv(RAdd(Pow2(2 * (qbits_integer - 1)),
                            RMul(Pow2(qbits_integer), RAdd(y1, RMul(next_f[1], dx)))),
                       RPow(dx, 2)))
        ELSE base

(* The energy a sampler reports for an assignment x of the QUBO Q: x^T Q x. *)
Energy(Q, x) ==
    RSum([u \in 1..Len(Q) |->
            RSum([v \in 1..Len(Q) |-> RMul(R(x[u] * x[v]), Q[u][v])])])

Assignments(Q) == [1..Len(Q) -> {0, 1}]

IsMinimizer(Q, x) == \A z \in Assignments(Q) : RLeq(Energy(Q, x), Energy(Q, z))
----------------------------------------------------------------------------
(* The general assembler *)

(* get_deriv_range with max_possible_accuracy one too small *)
get_deriv_range_short(deriv_ind, point_ind, last_point_ind, max_considered_accuracy) ==
    LET deriv_order       == deriv_ind - 1
        selected_accuracy ==
            IF deriv_order = 0 THEN 1
            ELSE Min(max_considered_accuracy, last_point_ind - point_ind - deriv_order)
        length            == deriv_order + selected_accuracy
    IN  <<deriv_order, selected_accuracy, length, point_ind + length - 1>>

(* Returns <<deriv_order, selected_accuracy, length, last_scheme_ind_global>> *)
get_deriv_range(deriv_ind, point_ind, last_point_ind, max_considered_accuracy) ==
    LET deriv_order       == deriv_ind - 1
        selected_accuracy ==
            IF deriv_order = 0 THEN 1
            ELSE Min(max_considered_accuracy, last_point_ind - point_ind - deriv_order + 1)
        length            == deriv_order + selected_accuracy
    IN  <<deriv_order, selected_accuracy, length, point_ind + length - 1>>

(* findiff.coefficients(deriv_order, accuracy_order)['forward']['coefficients'] *)
(* of the finite-difference library, for the even accuracy order 2; <<>> for    *)
(* the pairs this model does not use                                            *)
findiff_forward(deriv_order, accuracy_order) ==
    IF accuracy_order = 2 /\ deriv_order = 1 THEN <<<<-3, 2>>, R(2), <<-1, 2>>>>
    ELSE IF accuracy_order = 2 /\ deriv_order = 2 THEN <<R(2), R(-5), R(4), R(-1)>>
    ELSE <<>>

(* The coefficients; <<>> stands for the NotImplementedError of line 57 *)
get_finite_difference_coefficients(deriv_order, accuracy_order) ==
    IF deriv_order = 0 THEN <<R(1)>>
    ELSE IF accuracy_order % 2 = 0 THEN findiff_forward(deriv_order, accuracy_order)
    ELSE IF accuracy_order = 1 /\ deriv_order = 1 THEN <<R(-1), R(1)>>
    ELSE IF accuracy_order = 1 /\ deriv_order = 2 THEN <<R(1), R(-2), R(1)>>
    ELSE IF accuracy_order = 3 /\ deriv_order = 1
         THEN <<<<-11, 6>>, R(3), <<-3, 2>>, <<1, 3>>>>
    ELSE IF accuracy_order = 5 /\ deriv_order = 1
         THEN <<<<-137, 60>>, R(5), R(-5), <<10, 3>>, <<-5, 4>>, <<1, 5>>>>
    ELSE <<>>

(* funcs is a sequence of rows; funcs[r + 1][p + 1] is funcs[r, p] *)
NRows(funcs) == Len(funcs)

NCols(funcs) == IF Len(funcs) = 0 THEN 0 ELSE Len(funcs[1])

(* The terms of add_linear_terms that pass the test of line 104 *)
linear_terms(point, last_unknown, funcs, known_points, max_acc) ==
    {deriv_ind \in 1..(NRows(funcs) - 1) :
        LET rng == get_deriv_range(deriv_ind, point, last_unknown, max_acc)
        IN  ~(rng[4] < Len(known_points) \/ rng[2] < 1)}

(* add_linear_terms: [exc, d] with d the vector after the in-place additions *)
add_linear_terms(d, point, last_unknown, funcs, step, known_points, max_acc) ==
    LET first_unknown == Len(known_points)
        terms == linear_terms(point, last_unknown, funcs, known_points, max_acc)
        rng(t) == get_deriv_range(t, point, last_unknown, max_acc)
        coeffs(t) == get_finite_difference_coefficients(rng(t)[1], rng(t)[2])
        func_factor(t) ==
            RDiv(RMul(RMul(R(2), funcs[1][point + 1]), funcs[t + 1][point + 1]),
                 RPow(step, rng(t)[1]))
        (* what term t adds to d[unknown_ind] *)
        share(t, unknown_ind) ==
            LET scheme_ind == unknown_ind + first_unknown - point
            IN  IF scheme_ind >= 0 /\ scheme_ind < rng(t)[3]
                THEN RMul(func_factor(t), coeffs(t)[scheme_ind + 1])
                ELSE R(0)
        RECURSIVE total(_, _)
        total(t, unknown_ind) ==
            IF t >= NRows(funcs) THEN R(0)
            ELSE RAdd(IF t \in terms THEN share(t, unknown_ind) ELSE R(0),
                      total(t + 1, unknown_ind))
    IN  IF \E t \in terms : coeffs(t) = <<>>
        THEN [exc |-> "NotImplementedError", d |-> d]
        ELSE [exc |-> "none",
              d |-> [u \in 1..Len(d) |-> RAdd(d[u], total(1, u - 1))]]
(* The names a function body of qde.py can resolve: the module's globals     *)
(* and, in add_quadratic_terms, its parameters and the locals it assigns.    *)
module_globals ==
    {"findiff", "np", "QBSolv", "build_quadratic_minimization_matrix",
     "get_finite_difference_coefficients", "get_deriv_range", "add_linear_terms",
     "add_quadratic_terms", "build_quadratic_minimization_matrices_general",
     "build_quadratic_minimization_vector", "build_discretization_matrix",
     "build_discretization_vector", "build_qubo_matrix", "solve"}

add_quadratic_terms_locals ==
    {"H", "d", "point_ind", "last_unknown_ind_global", "funcs", "dx", "known_points",
     "max_considered_accuracy", "first_unknown_index_global",
     "deriv_ind1", "deriv_order1", "accuracy_order1", "length1", "last_scheme_ind_global1",
     "coeffs1", "deriv_ind2", "deriv_order2", "accuracy_order2", "length2",
     "last_scheme_ind_global2", "coeffs2", "func_factor", "scheme_ind1", "unknown_ind1",
     "scheme_ind2", "unknown_ind2", "h_factor", "unknown_ind", "known_ind"}

(* add_quadratic_terms: [exc, H, d].  Lines 137, 142, 144 and 153 read the     *)
(* name first_unknown_ind_global; line 129 assigns first_unknown_index_global. *)
add_quadratic_terms(H, d, point, last_unknown, funcs, step, known_points, max_acc) ==
    LET first_unknown == Len(known_points)
        nt == NRows(funcs) - 1
        rng(t) == get_deriv_range(t, point, last_unknown, max_acc)
        coeffs(t) == get_finite_difference_coefficients(rng(t)[1], rng(t)[2])
        outer(t1) == rng(t1)[2] >= 1
        inner(t1, t2) ==
            /\ outer(t1)
            /\ ~((rng(t1)[4] < first_unknown /\ rng(t2)[4] < first_unknown) \/ rng(t2)[2] < 1)
        func_factor(t1, t2) ==
            RDiv(RMul(funcs[t1 + 1][point + 1], funcs[t2 + 1][point + 1]),
                 RPow(step, rng(t1)[1] + rng(t2)[1]))
        h_factor(t1, t2, s1, s2) ==
            RMul(RMul(func_factor(t1, t2), coeffs(t1)[s1 + 1]), coeffs(t2)[s2 + 1])
        (* the sum of g over every (t1, t2, scheme_ind1, scheme_ind2) the loops visit *)
        visit(g(_, _, _, _)) ==
            RSum([t1 \in 1..nt |-> RSum([t2 \in 1..nt |->
                IF ~inner(t1, t2) THEN R(0)
                ELSE RSum([a \in 1..rng(t1)[3] |-> RSum([b \in 1..rng(t2)[3] |->
                        g(t1, t2, a - 1, b - 1)])])])])
        toH(r, c) ==
            LET g(t1, t2, s1, s2) ==
                    IF point + s1 - first_unknown = r /\ point + s2 - first_unknown = c
                    THEN h_factor(t1, t2, s1, s2) ELSE R(0)
            IN  visit(g)
        tod(u) ==
            LET g(t1, t2, s1, s2) ==
                    LET u1 == point + s1 - first_unknown
                        u2 == point + s2 - first_unknown
                    IN  IF (u1 < 0) # (u2 < 0) /\ Max(u1, u2) = u
                        THEN RMul(h_factor(t1, t2, s1, s2),
                                  known_points[Min(u1, u2) + first_unknown + 1])
                        ELSE R(0)
            IN  visit(g)
    IN  IF nt < 1 THEN [exc |-> "none", H |-> H, d |-> d]
        ELSE IF "first_unknown_ind_global" \notin add_quadratic_terms_locals \cup module_globals
        THEN [exc |-> "NameError", H |-> H, d |-> d]
        ELSE IF \/ \E t1 \in 1..nt : outer(t1) /\ coeffs(t1) = <<>>
                \/ \E t1, t2 \in 1..nt : inner(t1, t2) /\ coeffs(t2) = <<>>
        THEN [exc |-> "NotImplementedError", H |-> H, d |-> d]
        ELSE [exc |-> "none",
              H |-> [r \in 1..Len(H) |-> [c \in 1..Len(H) |->
                        RAdd(H[r][c], toH(r - 1, c - 1))]],
              d |-> [u \in 1..Len(d) |-> RAdd(d[u], tod(u - 1))]]

----------------------------------------------------------------------------
(* solve: the block loop *)

VARIABLES
    f, dx, boundary,          \* solve's arguments f, dx and y1 as the caller gave them
    qbits_integer, qbits_decimal, signed, points_per_qubo, average_solutions,
    sampler,                  \* which sampler stands behind QBSolv().sample_qubo
    pc,                       \* "start", "loop", "sample", "returned", "raised"
    exception,                \* "none" or the exception that left solve
    solution, error,          \* the locals of solve
    H_discret_elem, d_discret_elem,
    i, y1, next_i, next_f, Q,
    result,                   \* <<>> until solve returns <<solution, error>>
    calls,                    \* history: the block start index of every sampler call
    writes,                   \* history: writes[k] = number of stores to solution[k-1]
    err_updates,              \* history: number of executions of error += ...
    qubos,                    \* history: number of build_qubo_matrix calls
    \* get_deriv_range called on its own: its arguments and what it returned
    deriv_ind, point_ind, last_point_ind, max_considered_accuracy, deriv_range,
    \* build_quadratic_minimization_matrices_general: its arguments and locals
    funcs, known_points, points_per_step, H, d,
    \* decoding on its own: a sample's bits, the decoded value, a value to represent
    bits, value, target

vars == <<f, dx, boundary, qbits_integer, qbits_decimal, signed, points_per_qubo,
          average_solutions, sampler, pc, exception, solution, error,
          H_discret_elem, d_discret_elem, i, y1, next_i, next_f, Q, result,
          calls, writes, err_updates, qubos,
          deriv_ind, point_ind, last_point_ind, max_considered_accuracy, deriv_range,
          funcs, known_points, points_per_step, H, d, bits, value, target>>

(* The variables solve does not touch *)
aux == <<deriv_ind, point_ind, last_point_ind, max_considered_accuracy, deriv_range,
         funcs, known_points, points_per_step, H, d, bits, value, target>>

solve_locals == <<solution, error, H_discret_elem, d_discret_elem, i, y1, next_i, next_f,
                  Q, result, calls, writes, err_updates, qubos>>

AuxIdle ==
    /\ deriv_ind = 0 /\ point_ind = 0 /\ last_point_ind = 0
    /\ max_considered_accuracy = 0 /\ deriv_range = <<>>
    /\ funcs = <<>> /\ known_points = <<>> /\ points_per_step = 0
    /\ H = <<>> /\ d = <<>>
    /\ bits = <<>> /\ value = <<0, 1>> /\ target = <<0, 1>>

args == <<f, dx, boundary, qbits_integer, qbits_decimal, signed, points_per_qubo,
          average_solutions, sampler>>

Uninit == <<>>

(* Bounds of the model *)
MaxLen == 3

MaxSamples == 2

MaxLongLen == 5

MaxBlock == 3

MaxOccurrences == 2

RECURSIVE SeqsOfLen(_, _)
SeqsOfLen(S, n) ==
    IF n = 0 THEN {<<>>}
    ELSE {Append(s, v) : s \in SeqsOfLen(S, n - 1), v \in S}

SeqsUpTo(S, lo, hi) == UNION {SeqsOfLen(S, n) : n \in lo..hi}

InitLocals ==
    /\ pc = "start"
    /\ exception = "none"
    /\ solution = <<>>
    /\ error = R(0)
    /\ H_discret_elem = <<>>
    /\ d_discret_elem = <<>>
    /\ i = 0
    /\ y1 = boundary
    /\ next_i = 0
    /\ next_f = <<>>
    /\ Q = <<>>
    /\ result = <<>>
    /\ calls = <<>>
    /\ writes = [k \in 1..Len(f) |-> 0]
    /\ err_updates = 0
    /\ qubos = 0

(* Valid configurations, best-sample policy, any sampler behaviour. *)
InitBest ==
    /\ f \in SeqsUpTo({R(-1), <<1, 2>>}, 1, MaxLen)
    /\ dx \in {<<1, 2>>, R(2)}
    /\ boundary \in {<<-1, 2>>, R(1)}
    /\ \E q \in {<<1, 0>>, <<0, 1>>, <<1, 1>>, <<2, 0>>} :
            qbits_integer = q[1] /\ qbits_decimal = q[2]
    /\ signed \in BOOLEAN
    /\ points_per_qubo \in 1..2
    /\ average_solutions = FALSE
    /\ sampler \in {"single", "exact"}

(* The two end-to-end cases of the documentation, with an exact sampler. *)
InitExamples ==
    /\ \/ f = [k \in 1..5 |-> R(0)] /\ boundary = R(1)
       \/ f = [k \in 1..4 |-> R(1)] /\ boundary = R(0)
    /\ dx = R(1)
    /\ qbits_integer = 2 /\ qbits_decimal = 2
    /\ signed = FALSE
    /\ points_per_qubo = 1
    /\ average_solutions = FALSE
    /\ sampler = "exact"

(* Several samples per call, with and without averaging. *)
InitMulti ==
    /\ f \in SeqsUpTo({R(1)}, 2, MaxLen)
    /\ dx = <<1, 2>>
    /\ boundary \in {R(0), R(1)}
    /\ \E q \in {<<1, 0>>, <<0, 1>>} :
            qbits_integer = q[1] /\ qbits_decimal = q[2]
    /\ signed \in BOOLEAN
    /\ points_per_qubo \in 1..2
    /\ average_solutions \in BOOLEAN
    /\ sampler = "multi"

(* Configurations the documentation calls invalid: an empty grid, dx <= 0,   *)
(* points_per_qubo <= 0, or no bits at all.                                  *)
InitInvalid ==
    /\ f \in SeqsUpTo({R(0), R(1)}, 0, 2)
    /\ dx \in {R(-1), R(0), R(1)}
    /\ boundary \in {R(0), R(1)}
    /\ \E q \in {<<0, 0>>, <<1, 0>>} :
            qbits_integer = q[1] /\ qbits_decimal = q[2]
    /\ signed \in BOOLEAN
    /\ points_per_qubo \in -1..1
    /\ average_solutions \in BOOLEAN
    /\ sampler = "multi"
    /\ \/ Len(f) = 0
       \/ RLeq(dx, R(0))
       \/ points_per_qubo <= 0
       \/ qbits_integer + qbits_decimal = 0

(* Longer grids and larger blocks, one bit per grid value. *)
InitLong ==
    /\ \E n \in 1..MaxLongLen : f = [k \in 1..n |-> R(1)]
    /\ dx = R(1)
    /\ boundary = R(0)
    /\ qbits_integer = 1 /\ qbits_decimal = 0
    /\ signed \in BOOLEAN
    /\ points_per_qubo \in 1..MaxBlock
    /\ average_solutions = FALSE
    /\ sampler = "single"

Init == (InitBest \/ InitMulti \/ InitLong \/ InitInvalid \/ InitExamples) /\ InitLocals /\ AuxIdle

(* block_boundary reading the caller's boundary condition for every block *)
block_boundary_first(sol, k) == sol[1]

(* block_end without the clamp to the grid length *)
block_end_unclamped(k) == k + points_per_qubo

(* line 281: the boundary value of the block that starts at Python index k *)
block_boundary(sol, k) == sol[k]

(* line 282: next_i, the Python index one past the block that starts at k *)
block_end(k) == Min(k + points_per_qubo, Len(f))

(* range(1, len(f), points_per_qubo) still yields the value i *)
InRange(k) == IF points_per_qubo > 0 THEN k < Len(f) ELSE k > Len(f)

(* lines 274-280: the locals, the discretization element, the range object *)
Start ==
    /\ pc = "start"
    /\ IF Len(f) = 0
       THEN /\ exception' = "IndexError"
            /\ pc' = "raised"
            /\ UNCHANGED <<solution, H_discret_elem, d_discret_elem, i>>
       ELSE /\ solution' = [k \in 1..Len(f) |-> IF k = 1 THEN boundary ELSE Uninit]
            /\ H_discret_elem' = build_discretization_matrix(qbits_integer, qbits_decimal)
            /\ d_discret_elem' = build_discretization_vector(qbits_integer, qbits_decimal)
            /\ IF points_per_qubo = 0
               THEN exception' = "ValueError" /\ pc' = "raised" /\ i' = i
               ELSE exception' = exception /\ pc' = "loop" /\ i' = 1
    /\ writes' = [k \in 1..Len(f) |-> IF k = 1 THEN 1 ELSE 0]
    /\ UNCHANGED <<args, error, y1, next_i, next_f, Q, result, calls, err_updates, qubos>>
    /\ UNCHANGED aux

(* lines 280-284: the next block's boundary value, extent and QUBO *)
BuildBlock ==
    /\ pc = "loop"
    /\ InRange(i)
    /\ IF i - 1 >= Len(solution)
       THEN \* solution[i - 1] is no element of the array
            /\ exception' = "IndexError"
            /\ pc' = "raised"
            /\ UNCHANGED <<y1, next_i, next_f, qubos, Q>>
       ELSE LET b_y1     == block_boundary(solution, i)
                b_next_i == block_end(i)
                b_next_f == Slice(f, i - 1, b_next_i)
                built    == build_qubo_matrix(b_next_f, dx, b_y1, H_discret_elem,
                                              d_discret_elem, signed)
            IN  /\ y1' = b_y1
                /\ next_i' = b_next_i
                /\ next_f' = b_next_f
                /\ qubos' = qubos + 1
                /\ Q' = built.Q
                /\ IF built.exc = "none"
                   THEN pc' = "sample" /\ exception' = exception
                   ELSE pc' = "raised" /\ exception' = built.exc
    /\ UNCHANGED <<args, solution, error, H_discret_elem, d_discret_elem, i, result,
                   calls, writes, err_updates>>
    /\ UNCHANGED aux
(* What sample_qubo may hand back for Q: a non-empty collection of distinct  *)
(* assignments, each with its energy and occurrence count, lowest energy     *)
(* first.  The "multi" sampler hands back up to MaxSamples assignments, the  *)
(* "single" sampler one assignment, the "exact" sampler one minimizing       *)
(* assignment; only the exact sampler never fails.                           *)
SampleRecords(M) ==
    {[sample |-> x, energy |-> Energy(M, x), num_occurrences |-> n] :
        x \in Assignments(M), n \in 1..MaxOccurrences}

SampleSets(M, kind) ==
    IF kind = "exact"
    THEN {<<[sample |-> x, energy |-> Energy(M, x), num_occurrences |-> 1]>> :
            x \in {z \in Assignments(M) : IsMinimizer(M, z)}}
    ELSE {ss \in SeqsUpTo(SampleRecords(M), 1, IF kind = "single" THEN 1 ELSE MaxSamples) :
            \A a, b \in 1..Len(ss) :
                a < b => /\ ss[a].sample # ss[b].sample
                         /\ RLeq(ss[a].energy, ss[b].energy)}

(* lines 286-304 for one returned sample set: the values stored in           *)
(* solution[i:next_i] and the energy added to error                          *)
aggregate(sample_set, d_elem, q_int, is_signed, average) ==
    LET n            == Len(sample_set)
        samples_cont == [s \in 1..n |-> decode(sample_set[s].sample, d_elem, q_int, is_signed)]
        total        == RSum([s \in 1..n |-> R(sample_set[s].num_occurrences)])
        weights      == [s \in 1..n |-> RDiv(R(sample_set[s].num_occurrences), total)]
        m            == Len(samples_cont[1])
    IN  IF average
        THEN [values |-> [k \in 1..m |->
                            RSum([s \in 1..n |-> RMul(samples_cont[s][k], weights[s])])],
              solution_energy |-> RSum([s \in 1..n |-> RMul(sample_set[s].energy, weights[s])])]
        ELSE [values |-> samples_cont[1],
              solution_energy |-> sample_set[1].energy]

(* SamplerRaises with the failure swallowed: the loop goes on to the next block *)
SamplerRaises_swallowed ==
    /\ pc = "sample"
    /\ sampler # "exact"
    /\ calls' = Append(calls, i)
    /\ exception' = "SamplerError"
    /\ i' = i + points_per_qubo
    /\ pc' = "loop"
    /\ UNCHANGED <<args, solution, error, H_discret_elem, d_discret_elem, y1, next_i,
                   next_f, Q, result, writes, err_updates, qubos>>
    /\ UNCHANGED aux

(* line 285 raising: the sampler's failure leaves solve as it is *)
SamplerRaises ==
    /\ pc = "sample"
    /\ sampler # "exact"
    /\ calls' = Append(calls, i)
    /\ exception' = "SamplerError"
    /\ pc' = "raised"
    /\ UNCHANGED <<args, solution, error, H_discret_elem, d_discret_elem, i, y1, next_i,
                   next_f, Q, result, writes, err_updates, qubos>>
    /\ UNCHANGED aux

(* lines 285-304: the sampler answers, the block is decoded and stored *)
SamplerReturns ==
    /\ pc = "sample"
    /\ calls' = Append(calls, i)
    /\ \E sample_set \in SampleSets(Q, sampler) :
         IF Len(d_discret_elem) = 0
         THEN /\ exception' = "ValueError"
              /\ pc' = "raised"
              /\ UNCHANGED <<solution, error, i, writes, err_updates>>
         ELSE LET agg   == aggregate(sample_set, d_discret_elem, qbits_integer, signed,
                                     average_solutions)
                  shift == error_shift(next_f, dx, y1, qbits_integer, signed)
              IN  /\ solution' = [k \in 1..Len(solution) |->
                                    IF k - 1 >= i /\ k - 1 < next_i
                                    THEN agg.values[k - i] ELSE solution[k]]
                  /\ writes' = [k \in 1..Len(writes) |->
                                    IF k - 1 >= i /\ k - 1 < next_i
                                    THEN writes[k] + 1 ELSE writes[k]]
                  /\ error' = RAdd(error, RAdd(agg.solution_energy, shift))
                  /\ err_updates' = err_updates + 1
                  /\ i' = i + points_per_qubo
                  /\ pc' = "loop"
                  /\ exception' = exception
    /\ UNCHANGED <<args, H_discret_elem, d_discret_elem, y1, next_i, next_f, Q, result, qubos>>
    /\ UNCHANGED aux

(* line 306 *)
Return ==
    /\ pc = "loop"
    /\ ~InRange(i)
    /\ result' = <<solution, error>>
    /\ pc' = "returned"
    /\ UNCHANGED <<args, exception, solution, error, H_discret_elem, d_discret_elem, i, y1,
                   next_i, next_f, Q, calls, writes, err_updates, qubos>>
    /\ UNCHANGED aux

Next == Start \/ BuildBlock \/ SamplerRaises \/ SamplerReturns \/ Return

Spec == Init /\ [][Next]_vars
----------------------------------------------------------------------------
(* Properties of solve *)

Valid ==
    /\ Len(f) >= 1
    /\ RLess(R(0), dx)
    /\ points_per_qubo >= 1
    /\ qbits_integer + qbits_decimal >= 1

(* sum over k of ((y[k+1] - y[k]) / dx - f[k])^2 with y[0] = y0, y[1..m] = ys *)
Residual(y0, ys, fs, step) ==
    RSum([k \in 1..Len(ys) |->
            RPow(RSub(RDiv(RSub(ys[k], IF k = 1 THEN y0 ELSE ys[k - 1]), step), fs[k]), 2)])

(* C1: for the QUBO of every block solve builds (dx > 0, at least one bit,  *)
(* signed or unsigned) and for every binary assignment x, the energy        *)
(* x^T Q x plus error_shift equals the least-squares residual of the values *)
(* decoded from x.                                                          *)
C1_EnergyPlusShiftIsResidual ==
    (pc = "sample" /\ Valid) =>
        \A x \in Assignments(Q) :
            RAdd(Energy(Q, x), error_shift(next_f, dx, y1, qbits_integer, signed))
              = Residual(y1, decode(x, d_discret_elem, qbits_integer, signed), next_f, dx)

C1_Witness ==
    /\ pc = "sample" /\ Valid /\ signed
    /\ Len(next_f) = 3 /\ Len(Q) = 4
    /\ dx = <<1, 2>> /\ y1 # R(0) /\ next_f[1] # next_f[2]

(* The forward-Euler values y[0] = y1, y[k] = y[k-1] + f[k-1] * dx *)
RECURSIVE Euler(_)
Euler(k) == IF k = 1 THEN boundary ELSE RAdd(Euler(k - 1), RMul(f[k - 1], dx))

(* v is a value of the unsigned fixed-point representation *)
Representable(v) ==
    /\ RLeq(R(0), v)
    /\ RLess(v, Pow2(qbits_integer))
    /\ RMul(v, Pow2(qbits_decimal))[2] = 1

(* C2: with an exact sampler, unsigned values, no averaging and every        *)
(* forward-Euler value representable, solve never fails, every stored        *)
(* solution value is the Euler value, the accumulated error stays 0 and the  *)
(* returned pair is (Euler values, 0); the two documented cases return       *)
(* [1,1,1,1,1] with error 0 and [0,1,2,3].                                   *)
C2_ExactSamplerFollowsEuler ==
    (/\ sampler = "exact" /\ Valid /\ ~signed /\ ~average_solutions
     /\ \A k \in 1..Len(f) : Representable(Euler(k)))
    => /\ exception = "none"
       /\ error = R(0)
       /\ \A k \in 1..Len(solution) : solution[k] # Uninit => solution[k] = Euler(k)
       /\ pc = "returned" =>
            /\ result = <<[k \in 1..Len(f) |-> Euler(k)], R(0)>>
            /\ (f = [k \in 1..5 |-> R(0)] /\ boundary = R(1) /\ dx = R(1))
                  => result[1] = <<R(1), R(1), R(1), R(1), R(1)>>
            /\ (f = [k \in 1..4 |-> R(1)] /\ boundary = R(0) /\ dx = R(1))
                  => result[1] = <<R(0), R(1), R(2), R(3)>>

C2_Witness ==
    /\ pc = "returned" /\ sampler = "exact" /\ ~signed /\ ~average_solutions
    /\ qbits_integer = 2 /\ qbits_decimal = 2 /\ points_per_qubo = 1
    /\ f = [k \in 1..4 |-> R(1)] /\ boundary = R(0) /\ dx = R(1)
    /\ result = <<<<R(0), R(1), R(2), R(3)>>, R(0)>>
(* C3: for len(f) >= 1 and points_per_qubo >= 1 no grid index is out of     *)
(* range, every block has between 1 and points_per_qubo unknowns and never  *)
(* more than the grid points not yet generated, and on return every index   *)
(* 1..len(f)-1 was stored exactly once and solution[0] is the boundary y1.  *)
C3_BlocksCoverGrid ==
    (Len(f) >= 1 /\ points_per_qubo >= 1) =>
        /\ exception = "IndexError" => Len(d_discret_elem) = 0
        /\ \A k \in 1..Len(writes) : writes[k] <= 1
        /\ pc = "sample" =>
             /\ 1 <= i /\ i < Len(f)
             /\ i < next_i /\ next_i <= Len(f)
             /\ next_i - i <= points_per_qubo
             /\ next_i - i <= Cardinality({k \in 1..Len(writes) : writes[k] = 0})
             /\ Len(next_f) = next_i - i + 1
        /\ pc = "returned" =>
             /\ \A k \in 1..Len(f) : writes[k] = 1 /\ solution[k] # Uninit
             /\ solution[1] = boundary
             /\ result[1] = solution

C3_Witness ==
    /\ pc = "returned"
    /\ Len(f) = 5 /\ points_per_qubo = 3
    /\ calls = <<1, 4>>

(* C4 as claimed: with dx <= 0, points_per_qubo <= 0 or no bits, solve       *)
(* fails with a ConfigurationError before any discretization element or     *)
(* QUBO is built and before the sampler is called.                          *)
C4_ConfigurationErrorFirst ==
    (/\ \/ RLeq(dx, R(0))
        \/ points_per_qubo <= 0
        \/ qbits_integer + qbits_decimal = 0
     /\ pc # "start")
    => /\ pc = "raised"
       /\ exception = "ConfigurationError"
       /\ H_discret_elem = <<>> /\ d_discret_elem = <<>>
       /\ qubos = 0
       /\ calls = <<>>

(* C5: once the sampler has failed, solve has ended with that failure and   *)
(* without a result; the failing call is the last sampler call, no block    *)
(* was sampled twice, and the failed block stored nothing.                  *)
C5_SamplerFailurePropagates ==
    exception = "SamplerError" =>
        /\ pc = "raised"
        /\ result = <<>>
        /\ Len(calls) >= 1
        /\ calls[Len(calls)] = i
        /\ \A a, b \in 1..Len(calls) : a < b => calls[a] < calls[b]
        /\ err_updates = Len(calls) - 1
        /\ \A k \in 1..Len(writes) : k - 1 >= i => writes[k] = 0 /\ solution[k] = Uninit

C5_Witness ==
    /\ exception = "SamplerError"
    /\ pc = "raised"
    /\ Len(calls) = 2
    /\ err_updates = 1

(* C9: the sampler is called once per block, blocks in grid order; when the *)
(* sampler is about to be called for the block starting at i, every index   *)
(* below i has been stored once and none from i on, y1 is solution[i-1]     *)
(* (the caller's boundary for the first block), and error has been updated  *)
(* once per sampled block.                                                  *)
C9_BlocksInOrder ==
    /\ \A k \in 1..Len(calls) : calls[k] = 1 + (k - 1) * points_per_qubo
    /\ pc \in {"loop", "sample", "returned"} =>
         /\ err_updates = Len(calls)
         /\ \A k \in 1..Len(writes) : writes[k] = (IF k - 1 < i THEN 1 ELSE 0)
    /\ pc \in {"loop", "sample"} => i = 1 + Len(calls) * points_per_qubo
    /\ pc = "sample" =>
         /\ y1 = solution[i]
         /\ i = 1 => y1 = boundary

C9_Witness ==
    /\ pc = "sample"
    /\ Len(calls) = 2
    /\ y1 # boundary
    /\ writes[i] = 1
----------------------------------------------------------------------------
(* get_deriv_range called on its own *)

MaxTerm == 3

MaxPoint == 4

MaxAccuracy == 3

SolveIdle ==
    /\ f = <<>> /\ dx = R(1) /\ boundary = R(0)
    /\ qbits_integer = 0 /\ qbits_decimal = 0 /\ signed = FALSE
    /\ points_per_qubo = 1 /\ average_solutions = FALSE /\ sampler = "exact"

InitRange ==
    /\ deriv_ind \in 0..MaxTerm
    /\ point_ind \in 0..MaxPoint
    /\ last_point_ind \in -1..MaxPoint
    /\ max_considered_accuracy \in 0..MaxAccuracy
    /\ deriv_range = <<>>
    /\ funcs = <<>> /\ known_points = <<>> /\ points_per_step = 0
    /\ H = <<>> /\ d = <<>>
    /\ bits = <<>> /\ value = R(0) /\ target = R(0)
    /\ SolveIdle /\ InitLocals

(* lines 77-86 *)
GetDerivRange ==
    /\ pc = "start"
    /\ deriv_range' = get_deriv_range(deriv_ind, point_ind, last_point_ind,
                                      max_considered_accuracy)
    /\ pc' = "returned"
    /\ UNCHANGED <<args, exception, solve_locals, deriv_ind, point_ind, last_point_ind,
                   max_considered_accuracy, funcs, known_points, points_per_step, H, d,
                   bits, value, target>>

SpecRange == InitRange /\ [][GetDerivRange]_vars

(* C7 as claimed: for all inputs the accuracy order is below 1 exactly when  *)
(* last_unknown_index - point_index < deriv_order = term_index - 1, and      *)
(* otherwise it is at least 1 with length = deriv_order + accuracy_order and *)
(* last_scheme_index = point_index + length - 1.                             *)
C7_AsClaimed ==
    pc = "returned" =>
        LET deriv_order == deriv_ind - 1
        IN  /\ deriv_range[1] = deriv_order
            /\ (deriv_range[2] < 1) <=> (last_point_ind - point_ind < deriv_order)
            /\ deriv_range[2] >= 1 =>
                 /\ deriv_range[3] = deriv_order + deriv_range[2]
                 /\ deriv_range[4] = point_ind + deriv_range[3] - 1

(* C7 amended: the same, for max_accuracy >= 1 and, for the zero-order term  *)
(* (term_index = 1), point_index <= last_unknown_index.                      *)
C7_RangeSelector ==
    (/\ pc = "returned"
     /\ max_considered_accuracy >= 1
     /\ deriv_ind = 1 => point_ind <= last_point_ind)
    => LET deriv_order == deriv_ind - 1
       IN  /\ deriv_range[1] = deriv_order
           /\ (deriv_range[2] < 1) <=> (last_point_ind - point_ind < deriv_order)
           /\ deriv_range[2] >= 1 =>
                /\ deriv_range[3] = deriv_order + deriv_range[2]
                /\ deriv_range[4] = point_ind + deriv_range[3] - 1

C7_Witness ==
    /\ pc = "returned"
    /\ max_considered_accuracy = 3
    /\ deriv_ind = 3 /\ point_ind = 2 /\ last_point_ind = 3
    /\ deriv_range[2] < 1

----------------------------------------------------------------------------
(* The fixed-point representation on its own *)

MaxQbitsInteger == 2

MaxQbitsDecimal == 2

(* The bounds of the representable range: [lo, hi) *)
RangeLow(q_int, is_signed) == IF is_signed THEN RNeg(Pow2(q_int - 1)) ELSE R(0)

RangeHigh(q_int, is_signed) == IF is_signed THEN Pow2(q_int - 1) ELSE Pow2(q_int)

InCodecRange(x, q_int, is_signed) ==
    RLeq(RangeLow(q_int, is_signed), x) /\ RLess(x, RangeHigh(q_int, is_signed))

(* Values spread over the representable range, three to a resolution step *)
Targets(q_int, q_dec, is_signed) ==
    {RAdd(RangeLow(q_int, is_signed), RDiv(R(n), RMul(R(3), Pow2(q_dec)))) :
        n \in 0..(3 * IntPow(2, q_int + q_dec) - 1)}

InitCodec ==
    /\ qbits_integer \in 0..MaxQbitsInteger
    /\ qbits_decimal \in 0..MaxQbitsDecimal
    /\ qbits_integer + qbits_decimal >= 1
    /\ signed \in BOOLEAN
    /\ target \in Targets(qbits_integer, qbits_decimal, signed)
    /\ bits = <<>> /\ value = R(0)
    /\ f = <<>> /\ dx = R(1) /\ boundary = R(0)
    /\ points_per_qubo = 1 /\ average_solutions = FALSE /\ sampler = "exact"
    /\ deriv_ind = 0 /\ point_ind = 0 /\ last_point_ind = 0
    /\ max_considered_accuracy = 0 /\ deriv_range = <<>>
    /\ funcs = <<>> /\ known_points = <<>> /\ points_per_step = 0
    /\ H = <<>> /\ d = <<>>
    /\ InitLocals

(* line 278 *)
BuildDiscretizationVector ==
    /\ pc = "start"
    /\ d_discret_elem' = build_discretization_vector(qbits_integer, qbits_decimal)
    /\ pc' = "sample"
    /\ UNCHANGED <<args, exception, solution, error, H_discret_elem, i, y1, next_i, next_f,
                   Q, result, calls, writes, err_updates, qubos, aux>>

(* lines 286-291 for one sample of one grid value *)
DecodeSample ==
    /\ pc = "sample"
    /\ \E b \in [1..Len(d_discret_elem) -> {0, 1}] :
         /\ bits' = b
         /\ value' = decode(b, d_discret_elem, qbits_integer, signed)[1]
    /\ pc' = "returned"
    /\ UNCHANGED <<args, exception, solve_locals, deriv_ind, point_ind, last_point_ind,
                   max_considered_accuracy, deriv_range, funcs, known_points,
                   points_per_step, H, d, target>>

SpecCodec == InitCodec /\ [][BuildDiscretizationVector \/ DecodeSample]_vars

(* C8: with at least one bit, every value of the representable range is      *)
(* within less than 2^(-qbits_decimal) of the decoded value of some bit      *)
(* vector, and every bit vector decodes to a value of that range.            *)
C8_CodecCoversRange ==
    (pc \in {"sample", "returned"} /\ InCodecRange(target, qbits_integer, signed)) =>
        /\ \E b \in [1..Len(d_discret_elem) -> {0, 1}] :
              RLess(RAbs(RSub(decode(b, d_discret_elem, qbits_integer, signed)[1], target)),
                    Pow2(-qbits_decimal))
        /\ pc = "returned" => InCodecRange(value, qbits_integer, signed)

C8_Witness ==
    /\ pc = "returned"
    /\ signed /\ qbits_integer = 2 /\ qbits_decimal = 1
    /\ value = <<-3, 2>>
    /\ target = <<5, 3>>
----------------------------------------------------------------------------
(* build_quadratic_minimization_matrices_general *)

MaxCols == 3

MaxMultipliers == 2

InitGeneral ==
    /\ \E n \in 1..MaxCols :
         \E shift \in SeqsOfLen({R(-1), R(1)}, n) :
           \E mult \in SeqsUpTo({R(0), R(1)}, 0, MaxMultipliers) :
             /\ funcs = <<shift>> \o [r \in 1..Len(mult) |-> [c \in 1..n |-> mult[r]]]
             /\ known_points \in SeqsUpTo({R(0), R(1)}, 0, n)
    /\ points_per_step \in 1..2
    /\ dx \in {<<1, 2>>, R(1)}
    /\ max_considered_accuracy \in 1..2
    /\ H = <<>> /\ d = <<>> /\ point_ind = 0
    /\ deriv_ind = 0 /\ last_point_ind = 0 /\ deriv_range = <<>>
    /\ bits = <<>> /\ value = R(0) /\ target = R(0)
    /\ f = <<>> /\ boundary = R(0)
    /\ qbits_integer = 0 /\ qbits_decimal = 0 /\ signed = FALSE
    /\ points_per_qubo = 1 /\ average_solutions = FALSE /\ sampler = "exact"
    /\ InitLocals

(* line 173 *)
unknowns == Min(points_per_step, NCols(funcs) - Len(known_points))

(* line 174 *)
last_unknown_ind_global == Len(known_points) + unknowns - 1

(* lines 172-176 *)
GeneralStart ==
    /\ pc = "start"
    /\ IF unknowns < 0
       THEN \* np.zeros refuses negative dimensions
            /\ exception' = "ValueError"
            /\ pc' = "raised"
            /\ UNCHANGED <<H, d>>
       ELSE /\ H' = [r \in 1..unknowns |-> [c \in 1..unknowns |-> R(0)]]
            /\ d' = [r \in 1..unknowns |-> R(0)]
            /\ pc' = "loop"
            /\ exception' = exception
    /\ point_ind' = 0
    /\ UNCHANGED <<args, solve_locals, deriv_ind, last_point_ind, max_considered_accuracy,
                   deriv_range, funcs, known_points, points_per_step, bits, value, target>>

(* lines 177-179 for one point_ind *)
GeneralPoint ==
    /\ pc = "loop"
    /\ point_ind <= last_unknown_ind_global
    /\ LET lin  == add_linear_terms(d, point_ind, last_unknown_ind_global, funcs, dx,
                                    known_points, max_considered_accuracy)
           quad == add_quadratic_terms(H, lin.d, point_ind, last_unknown_ind_global, funcs,
                                       dx, known_points, max_considered_accuracy)
       IN  IF lin.exc # "none"
           THEN /\ exception' = lin.exc
                /\ pc' = "raised"
                /\ UNCHANGED <<H, d, point_ind>>
           ELSE IF quad.exc # "none"
           THEN /\ exception' = quad.exc
                /\ pc' = "raised"
                /\ d' = lin.d
                /\ UNCHANGED <<H, point_ind>>
           ELSE /\ H' = quad.H
                /\ d' = quad.d
                /\ point_ind' = point_ind + 1
                /\ UNCHANGED <<pc, exception>>
    /\ UNCHANGED <<args, solve_locals, deriv_ind, last_point_ind, max_considered_accuracy,
                   deriv_range, funcs, known_points, points_per_step, bits, value, target>>

(* line 180 *)
GeneralReturn ==
    /\ pc = "loop"
    /\ point_ind > last_unknown_ind_global
    /\ result' = <<H, d>>
    /\ pc' = "returned"
    /\ UNCHANGED <<args, exception, solution, error, H_discret_elem, d_discret_elem, i, y1,
                   next_i, next_f, Q, calls, writes, err_updates, qubos, aux>>

SpecGeneral == InitGeneral /\ [][GeneralStart \/ GeneralPoint \/ GeneralReturn]_vars

(* C6 as claimed: for funcs with a shift row and at least one multiplier     *)
(* row, any known prefix and any block size, the general assembler returns   *)
(* a symmetric H of size unknowns x unknowns.                                *)
C6_GeneralReturnsSymmetricH ==
    (NRows(funcs) >= 2 /\ pc \in {"raised", "returned"}) =>
        /\ pc = "returned"
        /\ Len(result[1]) = unknowns
        /\ \A r, c \in 1..Len(result[1]) :
              Len(result[1][r]) = unknowns /\ result[1][r][c] = result[1][c][r]

(* C10 as claimed: for funcs = [-f ; 0 ; 1], known_points = [y1],            *)
(* max_considered_accuracy = 1 and points_per_step = len(f) - 1 the general  *)
(* assembler returns the (H, d) of build_quadratic_minimization_matrix and   *)
(* build_quadratic_minimization_vector.                                      *)
C10_GeneralEqualsRestricted ==
    (/\ NRows(funcs) = 3 /\ NCols(funcs) >= 2
     /\ \A c \in 1..NCols(funcs) : funcs[2][c] = R(0) /\ funcs[3][c] = R(1)
     /\ Len(known_points) = 1
     /\ max_considered_accuracy = 1
     /\ points_per_step = NCols(funcs) - 1
     /\ pc \in {"raised", "returned"})
    => /\ pc = "returned"
       /\ result[1] = build_quadratic_minimization_matrix(NCols(funcs), dx)
       /\ result[2] = build_quadratic_minimization_vector(
                          [c \in 1..NCols(funcs) |-> RNeg(funcs[1][c])], dx, known_points[1])
====
